---- MODULE Spec2Model ----
(***************************************************************************)
(* scripts/clean_dune_manual.py: main() parses the command line and calls  *)
(* clean(in_path, out_path), which reads the source file, runs a fixed     *)
(* sequence of substitutions over the whole text and writes the result.    *)
(*                                                                         *)
(* A text is a sequence of Unicode code points (integers).  The unit -1    *)
(* in a file stands for a byte sequence that is not valid UTF-8.           *)
(***************************************************************************)
EXTENDS Integers, Sequences, FiniteSets

VARIABLES
    pc,        \* the statement main/clean is about to execute
    src,       \* the file at in_path: [exists, data]
    raw,       \* clean's local raw
    text,      \* clean's local text
    prev,      \* text as it was before the statement executed last
    outDir,    \* TRUE when out_path.parent exists
    dst,       \* the file at out_path: [exists, data]
    before,    \* outDir and dst as the run found them
    writes,    \* the data of every write_text call on out_path, in order
    exc,       \* the call that raised the exception in flight; "none"
    printed,   \* what main has printed, in order
    exit       \* <<main's return value>>; <<>> until it returns

vars == <<pc, src, raw, text, prev, outDir, dst, before, writes, exc, printed, exit>>

NoFile == [exists |-> FALSE, data |-> <<>>]
File(data) == [exists |-> TRUE, data |-> data]

(***************************************************************************)
(* Code points the patterns name.                                          *)
(***************************************************************************)
TAB == 9
LF == 10
CR == 13
SP == 32
HYPHEN == 45
BAR == 124
NBSP == 160
LIGFI == 64257
BADBYTE == -1

\* "D U N E" and "A D V E N T U R E S" of the banner pattern
BannerHead == <<68, 32, 85, 32, 78, 32, 69>>
BannerTail == <<65, 32, 68, 32, 86, 32, 69, 32, 78, 32, 84, 32, 85, 32, 82,
                32, 69, 32, 83>>

(***************************************************************************)
(* Character classes of Python's re on str patterns.                       *)
(***************************************************************************)
IsDigit(c) == c \in 48..57
IsUpper(c) == c \in 65..90
IsLower(c) == c \in 97..122
\* \w
IsWord(c) == IsDigit(c) \/ IsUpper(c) \/ IsLower(c) \/ c = 95
\* \s, and str.isspace(): the white space below U+0100
IsSpace(c) == c \in 9..13 \/ c \in 28..32 \/ c = 133 \/ c = NBSP
\* [ \t]
IsBlank(c) == c = SP \/ c = TAB
\* [\x00-\x08\x0b\x0c\x0e-\x1f]
IsControl(c) == c \in 0..8 \/ c \in 11..12 \/ c \in 14..31
\* [a-z] under re.I
IsLetterI(c) == IsLower(c) \/ IsUpper(c)
\* a literal of the pattern under re.I
Fold(c) == IF IsLower(c) THEN c - 32 ELSE c

\* \b before s[i] (i = Len(s) + 1: at the end)
WordAt(s, i) == i >= 1 /\ i <= Len(s) /\ IsWord(s[i])
WordBoundary(s, i) == WordAt(s, i - 1) # WordAt(s, i)

\* s without the positions in del
RECURSIVE KeepFrom(_, _, _)
KeepFrom(s, del, i) ==
    IF i > Len(s) THEN <<>>
    ELSE IF i \in del THEN KeepFrom(s, del, i + 1)
    ELSE <<s[i]>> \o KeepFrom(s, del, i + 1)
Without(s, del) == KeepFrom(s, del, 1)

(***************************************************************************)
(* in_path.read_text(encoding="utf-8", errors="ignore"): undecodable bytes *)
(* are dropped, then universal newlines turn \r\n and \r into \n.          *)
(***************************************************************************)
Decode(bytes) == SelectSeq(bytes, LAMBDA c : c # BADBYTE)

RECURSIVE TranslateNewlines(_)
TranslateNewlines(s) ==
    IF s = <<>> THEN <<>>
    ELSE IF Head(s) = CR
         THEN <<LF>> \o TranslateNewlines(
                  IF Len(s) >= 2 /\ s[2] = LF THEN Tail(Tail(s)) ELSE Tail(s))
         ELSE <<Head(s)>> \o TranslateNewlines(Tail(s))

read_text(bytes) == TranslateNewlines(Decode(bytes))

(***************************************************************************)
(* unicodedata.normalize("NFKC", raw), on the code points of the model:    *)
(* NO-BREAK SPACE becomes a space, the ligature fi becomes "fi"; ASCII is  *)
(* left as it is.                                                          *)
(***************************************************************************)
NFKCChar(c) ==
    IF c = NBSP THEN <<SP>>
    ELSE IF c = LIGFI THEN <<102, 105>>
    ELSE <<c>>

RECURSIVE normalize(_)
normalize(s) == IF s = <<>> THEN <<>> ELSE NFKCChar(Head(s)) \o normalize(Tail(s))

(***************************************************************************)
(* re.sub(r"[\x00-\x08\x0b\x0c\x0e-\x1f]", " ", text)                      *)
(***************************************************************************)
\* the class without \x0b\x0c: [\x00-\x08\x0e-\x1f]
ScrubControlNoVT(s) ==
    [i \in 1..Len(s) |->
        IF s[i] \in 0..8 \/ s[i] \in 14..31 THEN SP ELSE s[i]]

ScrubControl(s) == [i \in 1..Len(s) |-> IF IsControl(s[i]) THEN SP ELSE s[i]]

(***************************************************************************)
(* re.sub(r"\bD U N E\s*\|\s*A D V E N T U R E S.*?\n", "", text,          *)
(*        flags=re.I)                                                      *)
(***************************************************************************)
\* the literal lit stands at s[i..] under re.I
Literal(s, i, lit) ==
    /\ i + Len(lit) - 1 <= Len(s)
    /\ \A k \in 1..Len(lit) : Fold(s[i + k - 1]) = lit[k]

\* \s*: the first position from i on that holds no white space
RECURSIVE SkipSpace(_, _)
SkipSpace(s, i) ==
    IF i <= Len(s) /\ IsSpace(s[i]) THEN SkipSpace(s, i + 1) ELSE i

\* .*?\n: the position of the first \n from i on; 0 when there is none
RECURSIVE NextLF(_, _)
NextLF(s, i) ==
    IF i > Len(s) THEN 0
    ELSE IF s[i] = LF THEN i
    ELSE NextLF(s, i + 1)

\* the position after the match of the banner pattern that starts at i;
\* 0 when the pattern does not match there
BannerEnd(s, i) ==
    IF ~(WordBoundary(s, i) /\ Literal(s, i, BannerHead)) THEN 0
    ELSE LET j == SkipSpace(s, i + Len(BannerHead))
         IN  IF ~(j <= Len(s) /\ s[j] = BAR) THEN 0
             ELSE LET k == SkipSpace(s, j + 1)
                  IN  IF ~Literal(s, k, BannerTail) THEN 0
                      ELSE LET n == NextLF(s, k + Len(BannerTail))
                           IN  IF n = 0 THEN 0 ELSE n + 1

\* the positions re.sub deletes: the leftmost non-overlapping matches
RECURSIVE BannerDeleted(_, _)
BannerDeleted(s, i) ==
    IF i > Len(s) THEN {}
    ELSE LET e == BannerEnd(s, i)
         IN  IF e = 0 THEN BannerDeleted(s, i + 1)
             ELSE (i..(e - 1)) \cup BannerDeleted(s, e)

RemoveBanner(s) == Without(s, BannerDeleted(s, 1))

(***************************************************************************)
(* re.sub(r"\b\d{1,3}\s*$", "", text, flags=re.M)                          *)
(***************************************************************************)
\* the length of the run of digits that starts at i
RECURSIVE DigitRun(_, _)
DigitRun(s, i) ==
    IF i <= Len(s) /\ IsDigit(s[i]) THEN 1 + DigitRun(s, i + 1) ELSE 0

\* $ under re.M: at the end of the text, or before a \n
AtLineEnd(s, i) == i = Len(s) + 1 \/ (i <= Len(s) /\ s[i] = LF)

\* \s*$ from i: \s* is greedy and gives back one character at a time, so
\* the match ends at the last position of the white space run from i on
\* where $ holds; 0 when there is none
SpaceThenLineEnd(s, i) ==
    LET stop == SkipSpace(s, i)
        ends == {j \in i..stop : AtLineEnd(s, j)}
    IN  IF ends = {} THEN 0 ELSE CHOOSE j \in ends : \A k \in ends : k <= j

\* the pattern without its $: \b\d{1,3}\s*
PageNumberEndNoAnchor(s, i) ==
    IF ~WordBoundary(s, i) THEN 0
    ELSE LET n == DigitRun(s, i)
         IN  IF n < 1 THEN 0
             ELSE IF n > 3 THEN i + 3
             ELSE SkipSpace(s, i + n)

\* the position after the match of the page-number pattern that starts at
\* i; 0 when the pattern does not match there.  \d{1,3} tries 3, 2, 1
\* digits; fewer digits than the run leave a digit before \s*$, which
\* fails.
PageNumberEnd(s, i) ==
    IF ~WordBoundary(s, i) THEN 0
    ELSE LET n == DigitRun(s, i)
         IN  IF n < 1 \/ n > 3 THEN 0 ELSE SpaceThenLineEnd(s, i + n)

RECURSIVE PageNumberDeleted(_, _)
PageNumberDeleted(s, i) ==
    IF i > Len(s) THEN {}
    ELSE LET e == PageNumberEnd(s, i)
         IN  IF e = 0 THEN PageNumberDeleted(s, i + 1)
             ELSE (i..(e - 1)) \cup PageNumberDeleted(s, e)

RemovePageNumbers(s) == Without(s, PageNumberDeleted(s, 1))

(***************************************************************************)
(* re.sub(r"-\n([a-z])", r"\1", text, flags=re.I)                          *)
(***************************************************************************)
HyphenWrapAt(s, i) ==
    /\ i + 2 <= Len(s)
    /\ s[i] = HYPHEN
    /\ s[i + 1] = LF
    /\ IsLetterI(s[i + 2])

RECURSIVE HyphenDeleted(_, _)
HyphenDeleted(s, i) ==
    IF i > Len(s) THEN {}
    ELSE IF HyphenWrapAt(s, i) THEN {i, i + 1} \cup HyphenDeleted(s, i + 3)
    ELSE HyphenDeleted(s, i + 1)

RejoinHyphens(s) == Without(s, HyphenDeleted(s, 1))

(***************************************************************************)
(* re.sub(r"\n{3,}", "\n\n", text)                                         *)
(***************************************************************************)
\* the length of the run of \n that starts at i
RECURSIVE NewlineRun(_, _)
NewlineRun(s, i) ==
    IF i <= Len(s) /\ s[i] = LF THEN 1 + NewlineRun(s, i + 1) ELSE 0

RECURSIVE CollapseNewlinesFrom(_, _)
CollapseNewlinesFrom(s, i) ==
    IF i > Len(s) THEN <<>>
    ELSE LET n == NewlineRun(s, i)
         IN  IF n >= 3 THEN <<LF, LF>> \o CollapseNewlinesFrom(s, i + n)
             ELSE <<s[i]>> \o CollapseNewlinesFrom(s, i + 1)

CollapseNewlines(s) == CollapseNewlinesFrom(s, 1)

(***************************************************************************)
(* re.sub(r"[ \t]+", " ", text)                                            *)
(***************************************************************************)
\* the length of the run of [ \t] that starts at i
RECURSIVE BlankRun(_, _)
BlankRun(s, i) ==
    IF i <= Len(s) /\ IsBlank(s[i]) THEN 1 + BlankRun(s, i + 1) ELSE 0

RECURSIVE CollapseBlanksFrom(_, _)
CollapseBlanksFrom(s, i) ==
    IF i > Len(s) THEN <<>>
    ELSE LET n == BlankRun(s, i)
         IN  IF n >= 1 THEN <<SP>> \o CollapseBlanksFrom(s, i + n)
             ELSE <<s[i]>> \o CollapseBlanksFrom(s, i + 1)

CollapseBlanks(s) == CollapseBlanksFrom(s, 1)

(***************************************************************************)
(* textwrap.dedent(text).strip()                                           *)
(***************************************************************************)
\* text.split("\n")
RECURSIVE SplitLines(_)
SplitLines(s) ==
    LET n == NextLF(s, 1)
    IN  IF n = 0 THEN <<s>>
        ELSE <<SubSeq(s, 1, n - 1)>> \o SplitLines(SubSeq(s, n + 1, Len(s)))

\* "\n".join(lines)
RECURSIVE JoinLines(_)
JoinLines(ls) ==
    IF Len(ls) = 1 THEN ls[1]
    ELSE ls[1] \o <<LF>> \o JoinLines(Tail(ls))

\* ^[ \t]+$ : a line of blanks only
BlankOnly(l) == l # <<>> /\ \A k \in 1..Len(l) : IsBlank(l[k])

\* the line's leading [ \t]*
Indent(l) == SubSeq(l, 1, BlankRun(l, 1))

\* the longest common prefix of two indents
RECURSIVE CommonPrefix(_, _)
CommonPrefix(a, b) ==
    IF a = <<>> \/ b = <<>> \/ Head(a) # Head(b) THEN <<>>
    ELSE <<Head(a)>> \o CommonPrefix(Tail(a), Tail(b))

RECURSIVE Margin(_)
Margin(indents) ==
    IF Len(indents) = 1 THEN indents[1]
    ELSE CommonPrefix(indents[1], Margin(Tail(indents)))

dedent(s) ==
    LET lines   == SplitLines(s)
        cleared == [k \in 1..Len(lines) |->
                       IF BlankOnly(lines[k]) THEN <<>> ELSE lines[k]]
        indents == [k \in 1..Len(SelectSeq(cleared, LAMBDA l : l # <<>>)) |->
                       Indent(SelectSeq(cleared, LAMBDA l : l # <<>>)[k])]
        margin  == IF indents = <<>> THEN <<>> ELSE Margin(indents)
    IN  JoinLines([k \in 1..Len(cleared) |->
                      IF cleared[k] = <<>> THEN <<>>
                      ELSE SubSeq(cleared[k], Len(margin) + 1, Len(cleared[k]))])

\* str.strip()
strip(s) ==
    LET keep == {i \in 1..Len(s) : ~IsSpace(s[i])}
    IN  IF keep = {} THEN <<>>
        ELSE SubSeq(s, CHOOSE i \in keep : \A k \in keep : i <= k,
                       CHOOSE i \in keep : \A k \in keep : k <= i)

\* textwrap.dedent(text), the strip() left out
DedentOnly(s) == dedent(s)

DedentStrip(s) == strip(dedent(s))

\* the passes of clean, in the order of the code
CleanText(s) ==
    DedentStrip(CollapseBlanks(CollapseNewlines(RejoinHyphens(
        RemovePageNumbers(RemoveBanner(ScrubControl(normalize(s))))))))

(***************************************************************************)
(* The files the runs start from.  Each family is every text of up to a    *)
(* bounded length over its own small alphabet; the last holds one banner   *)
(* between two such texts.                                                 *)
(***************************************************************************)
MaxParaLen == 6
MaxBlankLen == 5
MaxNumLen == 6
MaxHyphLen == 4
MaxCtlLen == 3
MaxEncLen == 3
MaxBannerCtx == 2

SeqsUpTo(A, n) == UNION {[1..k -> A] : k \in 0..n}

\* "D U N E | A D V E N T U R E S" and "d u n e|a d v e n t u r e s"
BannerLine == BannerHead \o <<SP, BAR, SP>> \o BannerTail
BannerLower ==
    [k \in 1..(Len(BannerHead) + 1 + Len(BannerTail)) |->
        IF k <= Len(BannerHead)
        THEN (IF BannerHead[k] = SP THEN SP ELSE BannerHead[k] + 32)
        ELSE IF k = Len(BannerHead) + 1 THEN BAR
        ELSE (IF BannerTail[k - Len(BannerHead) - 1] = SP THEN SP
              ELSE BannerTail[k - Len(BannerHead) - 1] + 32)]

ParaChars == {97, SP, LF}
BlankChars == {97, SP, TAB, LF}
NumChars == {97, 49, SP, LF}
HyphChars == {97, 66, 49, HYPHEN, LF}
CtlChars == {97, LF, CR, 0, 8, 11, 12, 14, 31}
EncChars == {97, SP, LF, CR, BADBYTE, NBSP, LIGFI}
BannerCtxChars == {97, SP, LF}

Inputs ==
    SeqsUpTo(ParaChars, MaxParaLen)
    \cup SeqsUpTo(BlankChars, MaxBlankLen)
    \cup SeqsUpTo(NumChars, MaxNumLen)
    \cup SeqsUpTo(HyphChars, MaxHyphLen)
    \cup SeqsUpTo(CtlChars, MaxCtlLen)
    \cup SeqsUpTo(EncChars, MaxEncLen)
    \cup {pre \o banner \o post :
              pre \in SeqsUpTo(BannerCtxChars, MaxBannerCtx),
              banner \in {BannerLine, BannerLower},
              post \in SeqsUpTo(BannerCtxChars, MaxBannerCtx)}

\* what out_path may hold before the run
OldText == <<111, 108, 100>>

Init ==
    /\ pc = "parse_args"
    /\ \/ src \in {File(x) : x \in Inputs} /\ outDir = FALSE /\ dst = NoFile
       \/ /\ src \in {NoFile, File(<<>>), File(<<97, LF, 49, LF, 97>>)}
          /\ outDir = TRUE
          /\ dst \in {NoFile, File(OldText)}
    /\ before = [outDir |-> outDir, dst |-> dst]
    /\ raw = <<>>
    /\ text = <<>>
    /\ prev = <<>>
    /\ writes = <<>>
    /\ exc = "none"
    /\ printed = <<>>
    /\ exit = <<>>

(***************************************************************************)
(* main                                                                    *)
(***************************************************************************)
\* args = parser.parse_args(): argparse leaves through SystemExit on a
\* command line it rejects (and on --help), before the try statement
ParseArgs ==
    /\ pc = "parse_args"
    /\ \E accepted \in BOOLEAN :
           pc' = IF accepted THEN "read_text" ELSE "SystemExit"
    /\ UNCHANGED <<src, before, raw, text, prev, outDir, dst, writes, exc, printed, exit>>

\* an exception leaves clean: its locals are gone
Raise ==
    /\ pc' = "except"
    /\ exc' = pc
    /\ raw' = <<>>
    /\ text' = <<>>
    /\ prev' = <<>>

\* the parent directory made before the source is read
ReadTextAfterMkdir ==
    /\ pc = "read_text"
    /\ outDir' = TRUE
    /\ \/ /\ src.exists
          /\ raw' = read_text(src.data)
          /\ pc' = "normalize"
          /\ UNCHANGED <<text, prev, exc>>
       \/ Raise
    /\ UNCHANGED <<src, before, dst, writes, printed, exit>>

\* raw = in_path.read_text(encoding="utf-8", errors="ignore")
ReadText ==
    /\ pc = "read_text"
    /\ \/ /\ src.exists
          /\ raw' = read_text(src.data)
          /\ pc' = "normalize"
          /\ UNCHANGED <<text, prev, exc>>
       \/ Raise
    /\ UNCHANGED <<src, before, outDir, dst, writes, printed, exit>>

\* one substitution of clean: text = pass(text)
Pass(at, next, old, new) ==
    /\ pc = at
    /\ pc' = next
    /\ prev' = old
    /\ text' = new
    /\ UNCHANGED <<src, before, raw, outDir, dst, writes, exc, printed, exit>>

Normalize == Pass("normalize", "scrub", raw, normalize(raw))
Scrub == Pass("scrub", "banner", text, ScrubControl(text))
Banner == Pass("banner", "page_numbers", text, RemoveBanner(text))
PageNumbers == Pass("page_numbers", "hyphens", text, RemovePageNumbers(text))
Hyphens == Pass("hyphens", "newlines", text, RejoinHyphens(text))
Newlines == Pass("newlines", "blanks", text, CollapseNewlines(text))
Blanks == Pass("blanks", "dedent", text, CollapseBlanks(text))
Dedent == Pass("dedent", "mkdir", text, DedentStrip(text))

\* out_path.parent.mkdir(parents=True, exist_ok=True)
Mkdir ==
    /\ pc = "mkdir"
    /\ \/ /\ outDir' = TRUE
          /\ pc' = "write_text"
          /\ UNCHANGED <<raw, text, prev, exc>>
       \/ /\ ~outDir
          /\ Raise
          /\ UNCHANGED outDir
    /\ UNCHANGED <<src, before, dst, writes, printed, exit>>

\* out_path.write_text(text, encoding="utf-8"): open(mode="w") creates or
\* truncates the file, write and close put the data into it; the open may
\* fail, and a failing write or close leaves any part of the data behind
WriteText ==
    /\ pc = "write_text"
    /\ writes' = Append(writes, text)
    /\ \/ /\ dst' = File(text)
          /\ pc' = "clean_returned"
          /\ UNCHANGED <<raw, text, prev, exc>>
       \/ /\ Raise
          /\ UNCHANGED dst
       \/ /\ Raise
          /\ \E k \in 0..(Len(text) - 1) : dst' = File(SubSeq(text, 1, k))
    /\ UNCHANGED <<src, before, outDir, printed, exit>>

\* print(f"... cleaned {args.infile} -> {args.outfile}"); return 0
ReturnSuccess ==
    /\ pc = "clean_returned"
    /\ printed' = Append(printed, "cleaned")
    /\ exit' = <<0>>
    /\ pc' = "returned"
    /\ raw' = <<>>
    /\ text' = <<>>
    /\ prev' = <<>>
    /\ UNCHANGED <<src, before, outDir, dst, writes, exc>>

\* the handler without its return: main returns None, the exit status is 0
ReturnFailureNoCode ==
    /\ pc = "except"
    /\ printed' = Append(printed, "failed")
    /\ exit' = <<0>>
    /\ pc' = "returned"
    /\ UNCHANGED <<src, before, raw, text, prev, outDir, dst, writes, exc>>

\* except Exception as exc: print(f"... {exc}"); return 1
ReturnFailure ==
    /\ pc = "except"
    /\ printed' = Append(printed, "failed")
    /\ exit' = <<1>>
    /\ pc' = "returned"
    /\ UNCHANGED <<src, before, raw, text, prev, outDir, dst, writes, exc>>

Next ==
    \/ ParseArgs
    \/ ReadText
    \/ Normalize
    \/ Scrub
    \/ Banner
    \/ PageNumbers
    \/ Hyphens
    \/ Newlines
    \/ Blanks
    \/ Dedent
    \/ Mkdir
    \/ WriteText
    \/ ReturnSuccess
    \/ ReturnFailure

Spec == Init /\ [][Next]_vars

(***************************************************************************)
(* Properties                                                              *)
(***************************************************************************)
\* the text clean handed to write_text, when it has
Written == {writes[k] : k \in 1..Len(writes)}

HasTripleNewline(t) ==
    \E i \in 1..Len(t) : i + 2 <= Len(t) /\ t[i] = LF /\ t[i + 1] = LF /\ t[i + 2] = LF

\* the banner text, in any case, with or without the rest of its line
HasBanner(t) ==
    \E i \in 1..Len(t) :
        /\ Literal(t, i, BannerHead)
        /\ LET j == SkipSpace(t, i + Len(BannerHead))
           IN  /\ j <= Len(t)
               /\ t[j] = BAR
               /\ Literal(t, SkipSpace(t, j + 1), BannerTail)

\* a line that ends in a hyphen and is followed by another line
HasHyphenWrap(t) == \E i \in 1..Len(t) : i + 1 <= Len(t) /\ t[i] = HYPHEN /\ t[i + 1] = LF

Succeeded == pc = "returned" /\ exit = <<0>>

\* C1: the text clean writes never holds three or more consecutive newline
\* characters.
C1_NoTripleNewline == \A w \in Written : ~HasTripleNewline(w)

\* C2: when the cleaned text holds no banner, no hyphen-newline wrap and no
\* run of three or more newlines, cleaning the written file again yields
\* the same text.
C2_Idempotent ==
    Succeeded =>
        ((~HasBanner(dst.data) /\ ~HasHyphenWrap(dst.data) /\ ~HasTripleNewline(dst.data))
            => CleanText(read_text(dst.data)) = dst.data)

\* the line is a number of one to three digits and nothing else
IsPageNumberLine(l) == Len(l) \in 1..3 /\ \A k \in 1..Len(l) : IsDigit(l[k])

\* the digit at s[i] is embedded: text other than white space follows the
\* number it belongs to on the same line
Embedded(s, i) ==
    LET j == i + DigitRun(s, i)
        e == NextLF(s, j)
        eol == IF e = 0 THEN Len(s) + 1 ELSE e
    IN  \E k \in j..(eol - 1) : ~IsSpace(s[k])

Digits(s) == SelectSeq(s, IsDigit)

LowercaseWraps(s) ==
    UNION {{i, i + 1} : i \in {j \in 1..Len(s) :
        j + 2 <= Len(s) /\ s[j] = HYPHEN /\ s[j + 1] = LF /\ IsLower(s[j + 2])}}

\* C4: the hyphen pass removes the hyphen and the newline exactly where a
\* lowercase letter follows them, and nothing else.
C4_HyphenRejoin == pc = "newlines" => text = Without(prev, LowercaseWraps(prev))

\* a character of U+0000-U+001F other than newline and tab
LowControl(c) == c \in 0..31 /\ c # LF /\ c # TAB

\* C5: the written text holds no low control character, and the scrub has
\* put a space in the place of each one before the later passes run.
C5_NoControl ==
    /\ \A w \in Written : \A i \in 1..Len(w) : ~LowControl(w[i])
    /\ pc = "banner" =>
          /\ Len(text) = Len(prev)
          /\ \A i \in 1..Len(prev) :
                 text[i] = IF LowControl(prev[i]) THEN SP ELSE prev[i]

\* a file with control characters and a carriage return has been cleaned
\* and written
C5_Witness ==
    /\ Succeeded
    /\ \E i \in 1..Len(src.data) : src.data[i] = CR
    /\ \E i \in 1..Len(src.data) : IsControl(src.data[i])
    /\ dst.data # <<>>

\* C6: the written text holds no tab and no two adjacent spaces, and
\* neither begins nor ends with white space.
C6_Whitespace ==
    \A w \in Written :
        /\ \A i \in 1..Len(w) : w[i] # TAB
        /\ \A i \in 1..(Len(w) - 1) : ~(w[i] = SP /\ w[i + 1] = SP)
        /\ w # <<>> => ~IsSpace(w[1]) /\ ~IsSpace(w[Len(w)])

\* a file that begins with white space and holds a tab and a run of blanks
\* has been cleaned to a text with a space in it
C6_Witness ==
    /\ Succeeded
    /\ src.data # <<>>
    /\ IsSpace(src.data[1])
    /\ \E i \in 1..Len(src.data) : src.data[i] = TAB
    /\ \E i \in 1..(Len(src.data) - 1) : IsBlank(src.data[i]) /\ IsBlank(src.data[i + 1])
    /\ \E i \in 1..Len(dst.data) : dst.data[i] = SP

\* C7: main returns 0 exactly when clean ran to its end and 1 when it
\* raised; either way one message is printed, the one of the outcome, and
\* the handler takes every exception raised in clean.
C7_ExitCode ==
    /\ pc = "returned" =>
          /\ exit \in {<<0>>, <<1>>}
          /\ exit = <<0>> <=> exc = "none"
          /\ exit = <<1>> <=> exc \in {"read_text", "mkdir", "write_text"}
          /\ printed = IF exc = "none" THEN <<"cleaned">> ELSE <<"failed">>
          /\ exc = "none" => dst = File(writes[1])
    /\ pc # "returned" => exit = <<>> /\ (printed = <<>>)
    /\ exc # "none" => pc \in {"except", "returned"}
    /\ pc = "except" => ENABLED ReturnFailure

\* main has returned 1 after a write that failed
C7_Witness == pc = "returned" /\ exit = <<1>> /\ exc = "write_text"

\* the statements before out_path.parent.mkdir
BeforeMkdir ==
    {"parse_args", "read_text", "normalize", "scrub", "banner", "page_numbers",
     "hyphens", "newlines", "blanks", "dedent"}

\* the destination and its directory are as the run found them
Untouched == dst = before.dst /\ outDir = before.outDir /\ writes = <<>>

\* a is the beginning of b
IsPrefix(a, b) == Len(a) <= Len(b) /\ a = SubSeq(b, 1, Len(a))

\* C8: the destination and its directory are untouched until the passes
\* are over, and stay so in a run that fails to read or does not start; the
\* file is changed by write_text only, which is called at most once, with
\* the fully cleaned text.
C8_WriteLast ==
    /\ pc \in BeforeMkdir \cup {"mkdir", "SystemExit"} => Untouched
    /\ exc = "read_text" => Untouched
    /\ writes = <<>> => dst = before.dst
    /\ Len(writes) <= 1
    /\ pc = "write_text" => text = CleanText(read_text(src.data))
    /\ pc = "clean_returned" => writes = <<text>> /\ dst = File(text)
    /\ Succeeded => dst = File(writes[1])
    /\ exc = "write_text" =>
          dst = before.dst \/ (dst.exists /\ IsPrefix(dst.data, writes[1]))

\* the read failed with a file at the destination, which is as it was
C8_Witness ==
    /\ pc = "returned"
    /\ exc = "read_text"
    /\ dst = File(OldText)
    /\ writes = <<>>

\* C9: in the written text every newline belongs to a paragraph break: none
\* stands alone between two lines.
C9_ParagraphLines ==
    \A w \in Written : \A i \in 1..Len(w) :
        w[i] = LF => (i > 1 /\ w[i - 1] = LF) \/ (i < Len(w) /\ w[i + 1] = LF)

\* the line holds the banner
IsBannerLine(l) == HasBanner(l)

\* C10: the banner pass deletes the lines that hold the banner, whole and
\* with their newline, wherever they stand, and leaves every other line.
C10_BannerLines ==
    pc = "page_numbers" =>
        LET kept == SelectSeq(SplitLines(prev), LAMBDA l : ~IsBannerLine(l))
        IN  text = IF kept = <<>> THEN <<>> ELSE JoinLines(kept)

====
